---- MODULE Spec2Model ----
(***************************************************************************)
(* A model of cframe-rs: the Vec3 vector type (src/src/vec3.rs) and the    *)
(* CFrame 3x4 affine transform (src/src/cframe.rs).                        *)
(*                                                                         *)
(* Float (f64) values are modelled as exact rationals [n, d] in lowest     *)
(* terms, with d > 0.  A denominator of 0 encodes the IEEE non-finite      *)
(* values: 1/0 is +infinity, -1/0 is -infinity and 0/0 is NaN.  Mantissa   *)
(* rounding is not modelled (arithmetic is exact), but the bottom of the   *)
(* exponent range is: a product whose magnitude falls below the smallest   *)
(* positive value underflows to zero.  Signed zero is not modelled (the    *)
(* code never divides by a computed zero and -0.0 == 0.0).                 *)
(***************************************************************************)
EXTENDS Integers, Sequences, FiniteSets, TLC

VARIABLES cf, rhs, third, vec, vec2, call, ret, nops

vars == <<cf, rhs, third, vec, vec2, call, ret, nops>>

(***************************************************************************)
(* Bounds of the model.                                                    *)
(***************************************************************************)
\* in-place operations (+=, -=, *=, consuming normalize) per behaviour
MaxOps == 1
\* the smallest positive Float of the model is 2^-MinExp
MinExp == 20
\* the "tiny" input component is 2^-TinyExp; its square is below 2^-MinExp
TinyExp == 12
\* angles are 0 .. MaxQuarterTurns quarter turns
MaxQuarterTurns == 3

(***************************************************************************)
(* Float arithmetic.                                                       *)
(***************************************************************************)
Abs(i) == IF i < 0 THEN -i ELSE i

Sgn(i) == IF i < 0 THEN -1 ELSE IF i > 0 THEN 1 ELSE 0

RECURSIVE GCD(_, _)
GCD(a, b) == IF b = 0 THEN a ELSE GCD(b, a % b)

\* the rational n/d (d > 0) in lowest terms
Q(n, d) == LET g == GCD(Abs(n), d) IN [n |-> n \div g, d |-> d \div g]

F(i) == [n |-> i, d |-> 1]

NaN == [n |-> 0, d |-> 0]

PosInf == [n |-> 1, d |-> 0]

IsFinite(a) == a.d > 0

IsNaN(a) == a.d = 0 /\ a.n = 0

\* the result of a multiplication, flushed to zero below 2^-MinExp
Underflow(q) ==
    IF q.n # 0 /\ (q.d - 1) \div Abs(q.n) >= 2 ^ MinExp THEN F(0) ELSE q

FNeg(a) == [n |-> -a.n, d |-> a.d]

FAdd(a, b) ==
    IF IsFinite(a) /\ IsFinite(b) THEN Q(a.n * b.d + b.n * a.d, a.d * b.d)
    ELSE IF IsFinite(a) THEN b
    ELSE IF IsFinite(b) THEN a
    ELSE IF a.n = b.n THEN a ELSE NaN

FSub(a, b) == FAdd(a, FNeg(b))

FMul(a, b) ==
    IF IsFinite(a) /\ IsFinite(b) THEN Underflow(Q(a.n * b.n, a.d * b.d))
    ELSE [n |-> Sgn(a.n) * Sgn(b.n), d |-> 0]

\* 1.0 / b
FRecip(b) ==
    IF ~IsFinite(b) THEN (IF IsNaN(b) THEN NaN ELSE F(0))
    ELSE IF b.n = 0 THEN PosInf
    ELSE Q(Sgn(b.n) * b.d, Abs(b.n))

FDiv(a, b) == FMul(a, FRecip(b))

\* a == b on f64: NaN equals nothing
FEq(a, b) == ~IsNaN(a) /\ ~IsNaN(b) /\ a = b

\* a < b on f64: false when either side is NaN
FLt(a, b) ==
    /\ ~IsNaN(a)
    /\ ~IsNaN(b)
    /\ IF IsFinite(a) /\ IsFinite(b) THEN a.n * b.d < b.n * a.d
       ELSE IF IsFinite(a) THEN b.n > 0
       ELSE IF IsFinite(b) THEN a.n < 0
       ELSE a.n < b.n

FGt(a, b) == FLt(b, a)

RECURSIVE ISqrtFrom(_, _)
ISqrtFrom(x, r) == IF (r + 1) * (r + 1) > x THEN r ELSE ISqrtFrom(x, r + 1)

\* the integer square root, rounded down
ISqrt(x) == ISqrtFrom(x, 0)

\* f64::sqrt: exact on the square of a rational; otherwise the root is
\* rounded toward zero to a multiple of 1/d (never to zero for a > 0)
FSqrt(a) ==
    IF IsNaN(a) THEN NaN
    ELSE IF ~IsFinite(a) THEN (IF a.n > 0 THEN PosInf ELSE NaN)
    ELSE IF a.n < 0 THEN NaN
    ELSE Q(ISqrt(a.n * a.d), a.d)

(***************************************************************************)
(* Vec3 (src/src/vec3.rs).                                                 *)
(***************************************************************************)
Vec3(x, y, z) == [x |-> x, y |-> y, z |-> z]

V(i, j, k) == Vec3(F(i), F(j), F(k))

zero == V(0, 0, 0)

up == V(0, 1, 0)

down == V(0, -1, 0)

left == V(-1, 0, 0)

right == V(1, 0, 0)

forward == V(0, 0, -1)

backward == V(0, 0, 1)

dot(a, b) == FAdd(FAdd(FMul(a.x, b.x), FMul(a.y, b.y)), FMul(a.z, b.z))

cross(a, b) ==
    Vec3(FSub(FMul(a.y, b.z), FMul(a.z, b.y)),
         FSub(FMul(a.z, b.x), FMul(a.x, b.z)),
         FSub(FMul(a.x, b.y), FMul(a.y, b.x)))

magnitude(a) == FSqrt(dot(a, a))

\* the consuming variant: scales self in place when mag > 0, returns self
normalize(a) ==
    LET mag == magnitude(a) IN
    IF FGt(mag, F(0))
    THEN LET inv_mag == FDiv(F(1), mag) IN
         Vec3(FMul(a.x, inv_mag), FMul(a.y, inv_mag), FMul(a.z, inv_mag))
    ELSE a

\* the pure variant: a new vector when mag > 0, Vec3::zero() otherwise
normalized(a) ==
    LET mag == magnitude(a) IN
    IF FGt(mag, F(0))
    THEN LET inv_mag == FDiv(F(1), mag) IN
         Vec3(FMul(a.x, inv_mag), FMul(a.y, inv_mag), FMul(a.z, inv_mag))
    ELSE zero

VAdd(a, b) == Vec3(FAdd(a.x, b.x), FAdd(a.y, b.y), FAdd(a.z, b.z))

VSub(a, b) == Vec3(FSub(a.x, b.x), FSub(a.y, b.y), FSub(a.z, b.z))

VScale(a, s) == Vec3(FMul(a.x, s), FMul(a.y, s), FMul(a.z, s))

\* Vec3::unit is called by cframe.rs but defined in no source file; the
\* specification's normalized() contract (zero vector for zero magnitude)
unit(a) == normalized(a)

(***************************************************************************)
(* CFrame (src/src/cframe.rs): twelve Floats, rIJ in row I and column J of *)
(* the 3x4 matrix; column 4 is the translation.                            *)
(***************************************************************************)
from_components(m11, m12, m13, m14, m21, m22, m23, m24, m31, m32, m33, m34) ==
    [r11 |-> m11, r12 |-> m12, r13 |-> m13, r14 |-> m14,
     r21 |-> m21, r22 |-> m22, r23 |-> m23, r24 |-> m24,
     r31 |-> m31, r32 |-> m32, r33 |-> m33, r34 |-> m34]

\* the accessors x(), y(), z(), p()
X(c) == Vec3(c.r11, c.r21, c.r31)

Y(c) == Vec3(c.r12, c.r22, c.r32)

Z(c) == Vec3(c.r13, c.r23, c.r33)

P(c) == Vec3(c.r14, c.r24, c.r34)

identity ==
    from_components(F(1), F(0), F(0), F(0),
                    F(0), F(1), F(0), F(0),
                    F(0), F(0), F(1), F(0))

from_columns(x, y, z, p) ==
    [r11 |-> x.x, r12 |-> y.x, r13 |-> z.x, r14 |-> p.x,
     r21 |-> x.y, r22 |-> y.y, r23 |-> z.y, r24 |-> p.y,
     r31 |-> x.z, r32 |-> y.z, r33 |-> z.z, r34 |-> p.z]

from_pos(pos) ==
    [r11 |-> F(1), r12 |-> F(0), r13 |-> F(0), r14 |-> pos.x,
     r21 |-> F(0), r22 |-> F(1), r23 |-> F(0), r24 |-> pos.y,
     r31 |-> F(0), r32 |-> F(0), r33 |-> F(1), r34 |-> pos.z]

\* mutant of from_pos_facing: the facing-down fallback takes left() for y
from_pos_facing_left(from, to) ==
    LET z0 == unit(VSub(from, to))
        x0 == cross(up, z0)
        y0 == cross(z0, x0)
        fallback == FEq(magnitude(x0), F(0))
        x == IF ~fallback THEN x0
             ELSE IF FLt(z0.y, F(0)) THEN forward ELSE backward
        y == IF ~fallback THEN y0
             ELSE IF FLt(z0.y, F(0)) THEN left ELSE right
        z == IF ~fallback THEN z0
             ELSE IF FLt(z0.y, F(0)) THEN down ELSE up
    IN  [r11 |-> x.x, r12 |-> y.x, r13 |-> z.x, r14 |-> from.x,
         r21 |-> x.y, r22 |-> y.y, r23 |-> z.y, r24 |-> from.y,
         r31 |-> x.z, r32 |-> y.z, r33 |-> z.z, r34 |-> from.z]

from_pos_facing(from, to) ==
    LET z0 == unit(VSub(from, to))
        x0 == cross(up, z0)
        y0 == cross(z0, x0)
        fallback == FEq(magnitude(x0), F(0))
        x == IF ~fallback THEN x0
             ELSE IF FLt(z0.y, F(0)) THEN forward ELSE backward
        y == IF ~fallback THEN y0 ELSE right
        z == IF ~fallback THEN z0
             ELSE IF FLt(z0.y, F(0)) THEN down ELSE up
    IN  [r11 |-> x.x, r12 |-> y.x, r13 |-> z.x, r14 |-> from.x,
         r21 |-> x.y, r22 |-> y.y, r23 |-> z.y, r24 |-> from.y,
         r31 |-> x.z, r32 |-> y.z, r33 |-> z.z, r34 |-> from.z]

\* look_at, lines 145-159: the view frame of the basis x, cross(z, x), z
look_at_frame(eye, x, z) ==
    LET y == cross(z, x) IN
    [r11 |-> x.x, r12 |-> y.x, r13 |-> z.x,
     r14 |-> FNeg(FAdd(FAdd(FMul(x.x, eye.x), FMul(x.y, eye.y)), FMul(x.z, eye.z))),
     r21 |-> x.y, r22 |-> y.y, r23 |-> z.y,
     r24 |-> FNeg(FAdd(FAdd(FMul(y.x, eye.x), FMul(y.y, eye.y)), FMul(y.z, eye.z))),
     r31 |-> x.z, r32 |-> y.z, r33 |-> z.z,
     r34 |-> FNeg(FAdd(FAdd(FMul(z.x, eye.x), FMul(z.y, eye.y)), FMul(z.z, eye.z)))]

\* mutant of look_at: the zero-length right axis is not checked
look_at_unchecked_right(eye, center) ==
    IF FEq(magnitude(VSub(eye, center)), F(0)) THEN identity
    ELSE LET z == unit(VSub(eye, center))
             x == unit(cross(up, z))
         IN  look_at_frame(eye, x, z)

look_at(eye, center) ==
    IF FEq(magnitude(VSub(eye, center)), F(0)) THEN identity
    ELSE LET z == unit(VSub(eye, center))
             x == unit(cross(up, z))
         IN  IF FEq(magnitude(x), F(0)) THEN identity
             ELSE look_at_frame(eye, x, z)

from_pos_quaternions(pos, i, j, k, w) ==
    LET m14 == pos.x
        m24 == pos.y
        m34 == pos.z
        m11 == FSub(F(1), FMul(F(2), FSub(FMul(j, j), FMul(k, k))))
        m12 == FMul(F(2), FSub(FMul(i, j), FMul(k, w)))
        m13 == FMul(F(2), FAdd(FMul(i, k), FMul(j, w)))
        m21 == FMul(F(2), FAdd(FMul(i, j), FMul(k, w)))
        m22 == FSub(F(1), FMul(F(2), FSub(FMul(i, i), FMul(k, k))))
        m23 == FMul(F(2), FSub(FMul(j, k), FMul(i, w)))
        m31 == FMul(F(2), FSub(FMul(i, k), FMul(j, w)))
        m32 == FMul(F(2), FAdd(FMul(j, k), FMul(i, w)))
        m33 == FSub(F(1), FMul(F(2), FSub(FMul(i, i), FMul(j, j))))
    IN  [r11 |-> m11, r12 |-> m12, r13 |-> m13, r14 |-> m14,
         r21 |-> m21, r22 |-> m22, r23 |-> m23, r24 |-> m24,
         r31 |-> m31, r32 |-> m32, r33 |-> m33, r34 |-> m34]

\* An angle is modelled as a whole number of quarter turns (t * pi/2), with
\* the exact cosine and sine of that angle.
FCos(t) == F(CASE t % 4 = 0 -> 1 [] t % 4 = 1 -> 0 [] t % 4 = 2 -> -1 [] OTHER -> 0)

FSin(t) == F(CASE t % 4 = 0 -> 0 [] t % 4 = 1 -> 1 [] t % 4 = 2 -> 0 [] OTHER -> -1)

\* mutant of vec_axis_angle: the cross product's operands are swapped
vec_axis_angle_swapped(n0, v, t) ==
    LET n == unit(n0)
        u == FCos(t)
    IN  VAdd(VAdd(VScale(v, u),
                  VScale(VScale(n, dot(v, n)), FSub(F(1), u))),
             VScale(cross(v, n), FSin(t)))

vec_axis_angle(n0, v, t) ==
    LET n == unit(n0)
        u == FCos(t)
    IN  VAdd(VAdd(VScale(v, u),
                  VScale(VScale(n, dot(v, n)), FSub(F(1), u))),
             VScale(cross(n, v), FSin(t)))

from_axis_angle(axis, theta) ==
    LET r == vec_axis_angle(axis, right, theta)
        u == vec_axis_angle(axis, up, theta)
        b == vec_axis_angle(axis, backward, theta)
    IN  [r11 |-> r.x, r12 |-> u.x, r13 |-> b.x, r14 |-> F(0),
         r21 |-> r.y, r22 |-> u.y, r23 |-> b.y, r24 |-> F(0),
         r31 |-> r.z, r32 |-> u.z, r33 |-> b.z, r34 |-> F(0)]

determinant(s) ==
    FAdd(FSub(FMul(s.r11, FSub(FMul(s.r22, s.r33), FMul(s.r32, s.r23))),
              FMul(s.r21, FSub(FMul(s.r12, s.r33), FMul(s.r32, s.r13)))),
         FMul(s.r31, FSub(FMul(s.r12, s.r23), FMul(s.r22, s.r13))))

\* inverse, lines 276-314: the path taken when det != 0
inverse_scaled(s, det) ==
    LET inv_det == FDiv(F(1), det)
        m11 == FMul(FSub(FMul(s.r22, s.r33), FMul(s.r32, s.r23)), inv_det)
        m12 == FMul(FSub(FMul(s.r31, s.r23), FMul(s.r21, s.r33)), inv_det)
        m13 == FMul(FSub(FMul(s.r21, s.r32), FMul(s.r31, s.r22)), inv_det)
        m14 == FMul(FSub(FAdd(FAdd(
                   FMul(s.r21, FSub(FMul(s.r32, s.r34), FMul(s.r33, s.r24))),
                   FMul(s.r31, FSub(FMul(s.r23, s.r24), FMul(s.r22, s.r34)))),
                   FMul(s.r22, s.r33)),
                   FMul(s.r32, s.r23)), inv_det)
        m21 == FMul(FSub(FMul(s.r32, s.r13), FMul(s.r12, s.r33)), inv_det)
        m22 == FMul(FSub(FMul(s.r11, s.r33), FMul(s.r31, s.r13)), inv_det)
        m23 == FMul(FSub(FMul(s.r31, s.r12), FMul(s.r11, s.r32)), inv_det)
        m24 == FMul(FSub(FAdd(FAdd(
                   FMul(s.r31, FSub(FMul(s.r12, s.r34), FMul(s.r13, s.r24))),
                   FMul(s.r11, FSub(FMul(s.r23, s.r24), FMul(s.r22, s.r34)))),
                   FMul(s.r12, s.r33)),
                   FMul(s.r32, s.r13)), inv_det)
        m31 == FMul(FSub(FMul(s.r12, s.r23), FMul(s.r22, s.r13)), inv_det)
        m32 == FMul(FSub(FMul(s.r21, s.r13), FMul(s.r11, s.r23)), inv_det)
        m33 == FMul(FSub(FMul(s.r11, s.r22), FMul(s.r21, s.r12)), inv_det)
        m34 == FMul(FSub(FAdd(FAdd(
                   FMul(s.r11, FSub(FMul(s.r22, s.r34), FMul(s.r23, s.r24))),
                   FMul(s.r21, FSub(FMul(s.r13, s.r24), FMul(s.r12, s.r34)))),
                   FMul(s.r12, s.r23)),
                   FMul(s.r22, s.r13)), inv_det)
    IN  [r11 |-> m11, r12 |-> m12, r13 |-> m13, r14 |-> m14,
         r21 |-> m21, r22 |-> m22, r23 |-> m23, r24 |-> m24,
         r31 |-> m31, r32 |-> m32, r33 |-> m33, r34 |-> m34]

\* mutant of inverse: the det == 0.0 guard is missing
inverse_unguarded(s) == inverse_scaled(s, determinant(s))

inverse(s) ==
    LET det == determinant(s) IN
    IF FEq(det, F(0)) THEN identity ELSE inverse_scaled(s, det)

\* impl Add<Vec3> for CFrame
add(s, v) ==
    from_components(s.r11, s.r12, s.r13, FAdd(s.r14, v.x),
                    s.r21, s.r22, s.r23, FAdd(s.r24, v.y),
                    s.r31, s.r32, s.r33, FAdd(s.r34, v.z))

\* impl AddAssign<Vec3> for CFrame: the receiver after self += v
add_assign(s, v) ==
    [s EXCEPT !.r14 = FAdd(s.r14, v.x),
              !.r24 = FAdd(s.r24, v.y),
              !.r34 = FAdd(s.r34, v.z)]

\* impl Sub<Vec3> for CFrame
sub(s, v) ==
    from_components(s.r11, s.r12, s.r13, FSub(s.r14, v.x),
                    s.r21, s.r22, s.r23, FSub(s.r24, v.y),
                    s.r31, s.r32, s.r33, FSub(s.r34, v.z))

\* mutant of sub_assign: r34 is offset the wrong way
sub_assign_plus(s, v) ==
    [s EXCEPT !.r14 = FSub(s.r14, v.x),
              !.r24 = FSub(s.r24, v.y),
              !.r34 = FAdd(s.r34, v.z)]

\* impl SubAssign<Vec3> for CFrame: the receiver after self -= v
sub_assign(s, v) ==
    [s EXCEPT !.r14 = FSub(s.r14, v.x),
              !.r24 = FSub(s.r24, v.y),
              !.r34 = FSub(s.r34, v.z)]

Dot3(a1, b1, a2, b2, a3, b3) == FAdd(FAdd(FMul(a1, b1), FMul(a2, b2)), FMul(a3, b3))

\* mutant of mul: the translation adds the right operand's r14, r24, r34
mul_rhs_translation(s, o) ==
    from_components(
        Dot3(s.r11, o.r11, s.r12, o.r21, s.r13, o.r31),
        Dot3(s.r11, o.r12, s.r12, o.r22, s.r13, o.r32),
        Dot3(s.r11, o.r13, s.r12, o.r23, s.r13, o.r33),
        FAdd(Dot3(s.r11, o.r14, s.r12, o.r24, s.r13, o.r34), o.r14),
        Dot3(s.r21, o.r11, s.r22, o.r21, s.r23, o.r31),
        Dot3(s.r21, o.r12, s.r22, o.r22, s.r23, o.r32),
        Dot3(s.r21, o.r13, s.r22, o.r23, s.r23, o.r33),
        FAdd(Dot3(s.r21, o.r14, s.r22, o.r24, s.r23, o.r34), o.r24),
        Dot3(s.r31, o.r11, s.r32, o.r21, s.r33, o.r31),
        Dot3(s.r31, o.r12, s.r32, o.r22, s.r33, o.r32),
        Dot3(s.r31, o.r13, s.r32, o.r23, s.r33, o.r33),
        FAdd(Dot3(s.r31, o.r14, s.r32, o.r24, s.r33, o.r34), o.r34))

\* impl Mul for CFrame
mul(s, o) ==
    from_components(
        Dot3(s.r11, o.r11, s.r12, o.r21, s.r13, o.r31),
        Dot3(s.r11, o.r12, s.r12, o.r22, s.r13, o.r32),
        Dot3(s.r11, o.r13, s.r12, o.r23, s.r13, o.r33),
        FAdd(Dot3(s.r11, o.r14, s.r12, o.r24, s.r13, o.r34), s.r14),
        Dot3(s.r21, o.r11, s.r22, o.r21, s.r23, o.r31),
        Dot3(s.r21, o.r12, s.r22, o.r22, s.r23, o.r32),
        Dot3(s.r21, o.r13, s.r22, o.r23, s.r23, o.r33),
        FAdd(Dot3(s.r21, o.r14, s.r22, o.r24, s.r23, o.r34), s.r24),
        Dot3(s.r31, o.r11, s.r32, o.r21, s.r33, o.r31),
        Dot3(s.r31, o.r12, s.r32, o.r22, s.r33, o.r32),
        Dot3(s.r31, o.r13, s.r32, o.r23, s.r33, o.r33),
        FAdd(Dot3(s.r31, o.r14, s.r32, o.r24, s.r33, o.r34), s.r34))

\* impl MulAssign for CFrame: the receiver after self *= o
mul_assign(s, o) == mul(s, o)

(***************************************************************************)
(* Inputs.                                                                 *)
(***************************************************************************)
Tiny == [n |-> 1, d |-> 2 ^ TinyExp]

\* frames the algebra is exercised on: the identity, a pure translation,
\* two non-symmetric rotations, a reflection, a uniform scale, a shear with
\* scale, and two singular blocks
FrameInputs ==
    { identity,
      from_pos(V(1, 2, 3)),
      from_columns(V(0, 1, 0), V(-1, 0, 0), V(0, 0, 1), V(1, 0, -1)),
      from_columns(V(1, 0, 0), V(0, 0, 1), V(0, -1, 0), V(0, 2, 0)),
      from_columns(V(1, 0, 0), V(0, 1, 0), V(0, 0, -1), V(0, 0, 0)),
      from_columns(V(2, 0, 0), V(0, 2, 0), V(0, 0, 2), V(1, 1, 0)),
      from_columns(V(1, 0, 0), V(1, 1, 0), V(0, 0, 2), V(0, 0, 1)),
      from_columns(V(1, 2, 0), V(2, 4, 0), V(0, 0, 1), V(3, 1, 2)),
      from_columns(V(0, 0, 0), V(0, 0, 0), V(0, 0, 0), V(1, 0, 0)) }

OffsetInputs == { zero, V(1, 0, 0), V(0, -2, 3), Vec3(Q(1, 2), F(0), F(-1)) }

NoCall == [fn |-> "none"]

(***************************************************************************)
(* Spec: the CFrame algebra.  cf is the receiver, rhs and third are frame  *)
(* operands and vec a vector operand; call records the last operation and  *)
(* its arguments, ret its result.                                          *)
(***************************************************************************)
Init ==
    /\ cf \in FrameInputs
    /\ rhs \in FrameInputs
    /\ third \in FrameInputs
    /\ vec \in OffsetInputs
    /\ vec2 = zero
    /\ call = NoCall
    /\ ret = NoCall
    /\ nops = 0

Determinant ==
    /\ call' = [fn |-> "determinant", self |-> cf]
    /\ ret' = determinant(cf)
    /\ UNCHANGED <<cf, rhs, third, vec, vec2, nops>>

Inverse ==
    /\ call' = [fn |-> "inverse", self |-> cf]
    /\ ret' = inverse(cf)
    /\ UNCHANGED <<cf, rhs, third, vec, vec2, nops>>

Add ==
    /\ call' = [fn |-> "add", self |-> cf, rhs |-> vec]
    /\ ret' = add(cf, vec)
    /\ UNCHANGED <<cf, rhs, third, vec, vec2, nops>>

Sub ==
    /\ call' = [fn |-> "sub", self |-> cf, rhs |-> vec]
    /\ ret' = sub(cf, vec)
    /\ UNCHANGED <<cf, rhs, third, vec, vec2, nops>>

Mul ==
    /\ call' = [fn |-> "mul", self |-> cf, rhs |-> rhs]
    /\ ret' = mul(cf, rhs)
    /\ UNCHANGED <<cf, rhs, third, vec, vec2, nops>>

AddAssign ==
    /\ nops < MaxOps
    /\ call' = [fn |-> "add_assign", self |-> cf, rhs |-> vec]
    /\ cf' = add_assign(cf, vec)
    /\ ret' = cf'
    /\ nops' = nops + 1
    /\ UNCHANGED <<rhs, third, vec, vec2>>

SubAssign ==
    /\ nops < MaxOps
    /\ call' = [fn |-> "sub_assign", self |-> cf, rhs |-> vec]
    /\ cf' = sub_assign(cf, vec)
    /\ ret' = cf'
    /\ nops' = nops + 1
    /\ UNCHANGED <<rhs, third, vec, vec2>>

MulAssign ==
    /\ nops < MaxOps
    /\ call' = [fn |-> "mul_assign", self |-> cf, rhs |-> rhs]
    /\ cf' = mul_assign(cf, rhs)
    /\ ret' = cf'
    /\ nops' = nops + 1
    /\ UNCHANGED <<rhs, third, vec, vec2>>

Next ==
    \/ Determinant
    \/ Inverse
    \/ Add
    \/ Sub
    \/ Mul
    \/ AddAssign
    \/ SubAssign
    \/ MulAssign

Spec == Init /\ [][Next]_vars

(***************************************************************************)
(* Claims about the CFrame algebra, checked under Spec.                    *)
(***************************************************************************)
FiniteVec(v) == IsFinite(v.x) /\ IsFinite(v.y) /\ IsFinite(v.z)

FiniteFrame(c) ==
    FiniteVec(X(c)) /\ FiniteVec(Y(c)) /\ FiniteVec(Z(c)) /\ FiniteVec(P(c))

SameBlock(c, e) == X(c) = X(e) /\ Y(c) = Y(e) /\ Z(c) = Z(e)

Singular(c) == FEq(determinant(c), F(0))

\* C1: for every frame A with determinant(A) != 0, A * A.inverse() is the
\* identity: identity 3x3 block and translation (0,0,0)
C1_InverseIsRightInverse ==
    (call.fn = "inverse" /\ ~Singular(call.self))
        => /\ SameBlock(mul(call.self, ret), identity)
           /\ P(mul(call.self, ret)) = zero

\* C2: for every frame A with determinant(A) == 0, A.inverse() is exactly
\* the identity (identity block, zero translation), whatever A's
\* translation, with no NaN or infinity in the result
C2_SingularInverseIsIdentity ==
    (call.fn = "inverse" /\ Singular(call.self))
        => /\ ret = identity
           /\ X(ret) = right /\ Y(ret) = up /\ Z(ret) = backward
           /\ P(ret) = zero
           /\ FiniteFrame(ret)

C2_Witness ==
    /\ call.fn = "inverse"
    /\ Singular(call.self)
    /\ P(call.self) # zero
    /\ X(call.self) # zero
    /\ ret = identity

\* the 3x4 matrix of a frame, by row and column
Rows(c) ==
    << <<c.r11, c.r12, c.r13, c.r14>>,
       <<c.r21, c.r22, c.r23, c.r24>>,
       <<c.r31, c.r32, c.r33, c.r34>> >>

\* row i of a's block times column j of b
RowCol(a, b, i, j) ==
    FAdd(FAdd(FMul(Rows(a)[i][1], Rows(b)[1][j]),
              FMul(Rows(a)[i][2], Rows(b)[2][j])),
         FMul(Rows(a)[i][3], Rows(b)[3][j]))

\* block = a.block * b.block, translation = a.block * b.p + a.p
Compose(a, b) ==
    from_components(
        RowCol(a, b, 1, 1), RowCol(a, b, 1, 2), RowCol(a, b, 1, 3),
        FAdd(RowCol(a, b, 1, 4), Rows(a)[1][4]),
        RowCol(a, b, 2, 1), RowCol(a, b, 2, 2), RowCol(a, b, 2, 3),
        FAdd(RowCol(a, b, 2, 4), Rows(a)[2][4]),
        RowCol(a, b, 3, 1), RowCol(a, b, 3, 2), RowCol(a, b, 3, 3),
        FAdd(RowCol(a, b, 3, 4), Rows(a)[3][4]))

\* C3: A * B has block A.block * B.block and translation
\* A.block * B.p + A.p, and for every C, (A * B) * C = A * (B * C) in all
\* twelve components; *= leaves the receiver equal to the product
C3_MulAssociative ==
    (call.fn \in {"mul", "mul_assign"})
        => /\ ret = Compose(call.self, call.rhs)
           /\ mul(ret, third) = mul(call.self, mul(call.rhs, third))
           /\ (call.fn = "mul_assign" => cf = ret)

C3_Witness ==
    /\ call.fn = "mul"
    /\ ret # mul(call.rhs, call.self)
    /\ mul(call.rhs, third) # mul(third, call.rhs)
    /\ P(call.self) # zero /\ P(call.rhs) # zero /\ P(third) # zero
    /\ ~Singular(call.self) /\ ~Singular(call.rhs) /\ ~Singular(third)

\* C9: A + v and A - v keep A's nine block components and have translation
\* A.p + v (resp. A.p - v); += and -= yield the same frame as + and -, and
\* change the receiver's translation only; (A + v) - v is A again
C9_OffsetKeepsBlock ==
    /\ (call.fn \in {"add", "add_assign"})
        => /\ SameBlock(ret, call.self)
           /\ P(ret) = VAdd(P(call.self), call.rhs)
           /\ ret = add(call.self, call.rhs)
           /\ SameBlock(sub(ret, call.rhs), call.self)
           /\ P(sub(ret, call.rhs)) = P(call.self)
    /\ (call.fn \in {"sub", "sub_assign"})
        => /\ SameBlock(ret, call.self)
           /\ P(ret) = VSub(P(call.self), call.rhs)
           /\ ret = sub(call.self, call.rhs)
    /\ (call.fn \in {"add_assign", "sub_assign"}) => cf = ret

C9_Witness ==
    /\ call.fn = "sub_assign"
    /\ call.rhs.x # F(0) /\ call.rhs.z # F(0)
    /\ ~SameBlock(call.self, identity)
    /\ cf # call.self

(***************************************************************************)
(* SpecCtor: the constructors.  vec and vec2 are the two position          *)
(* arguments (from/to, eye/center); the quaternion, the axis and the angle *)
(* are chosen by the call.  cf is bound to the constructed frame.          *)
(***************************************************************************)
\* positions whose pairwise differences have rational length, so that
\* normalising a difference is exact
PosInputs == { V(0, 0, 0), V(0, 4, 0), V(0, 8, 0), V(3, 4, 0), V(-3, 4, 0) }

Half == Q(1, 2)

QuatInputs ==
    { <<F(i), F(j), F(k), F(w)>> : i \in {0, 1}, j \in {0, 1}, k \in {0, 1},
                                   w \in {-1, 0, 1} }
    \cup { <<Half, Half, Half, Half>>, <<F(0), F(0), F(-1), F(0)>> }

AxisInputs == { up, right, backward, down, zero, V(0, 4, 0), V(3, 4, 0) }

InitCtor ==
    /\ vec \in PosInputs
    /\ vec2 \in PosInputs
    /\ cf = identity
    /\ rhs = identity
    /\ third = identity
    /\ call = NoCall
    /\ ret = NoCall
    /\ nops = 0

FromPos ==
    /\ call' = [fn |-> "from_pos", pos |-> vec]
    /\ cf' = from_pos(vec)
    /\ ret' = cf'
    /\ UNCHANGED <<rhs, third, vec, vec2, nops>>

FromPosFacing ==
    /\ call' = [fn |-> "from_pos_facing", from |-> vec, to |-> vec2]
    /\ cf' = from_pos_facing(vec, vec2)
    /\ ret' = cf'
    /\ UNCHANGED <<rhs, third, vec, vec2, nops>>

LookAt ==
    /\ call' = [fn |-> "look_at", eye |-> vec, center |-> vec2]
    /\ cf' = look_at(vec, vec2)
    /\ ret' = cf'
    /\ UNCHANGED <<rhs, third, vec, vec2, nops>>

FromPosQuaternions ==
    \E q \in QuatInputs :
        /\ call' = [fn |-> "from_pos_quaternions", pos |-> vec,
                    i |-> q[1], j |-> q[2], k |-> q[3], w |-> q[4]]
        /\ cf' = from_pos_quaternions(vec, q[1], q[2], q[3], q[4])
        /\ ret' = cf'
        /\ UNCHANGED <<rhs, third, vec, vec2, nops>>

FromAxisAngle ==
    \E axis \in AxisInputs, theta \in 0 .. MaxQuarterTurns :
        /\ call' = [fn |-> "from_axis_angle", axis |-> axis, theta |-> theta]
        /\ cf' = from_axis_angle(axis, theta)
        /\ ret' = cf'
        /\ UNCHANGED <<rhs, third, vec, vec2, nops>>

NextCtor ==
    \/ FromPos
    \/ FromPosFacing
    \/ LookAt
    \/ FromPosQuaternions
    \/ FromAxisAngle

SpecCtor == InitCtor /\ [][NextCtor]_vars

(***************************************************************************)
(* Claims about the constructors, checked under SpecCtor.                  *)
(***************************************************************************)
Two == F(2)

\* the standard quaternion-to-rotation-matrix conversion, by rows
QuatBlock(i, j, k, w) ==
    << << FSub(F(1), FMul(Two, FAdd(FMul(j, j), FMul(k, k)))),
          FMul(Two, FSub(FMul(i, j), FMul(k, w))),
          FMul(Two, FAdd(FMul(i, k), FMul(j, w))) >>,
       << FMul(Two, FAdd(FMul(i, j), FMul(k, w))),
          FSub(F(1), FMul(Two, FAdd(FMul(i, i), FMul(k, k)))),
          FMul(Two, FSub(FMul(j, k), FMul(i, w))) >>,
       << FMul(Two, FSub(FMul(i, k), FMul(j, w))),
          FMul(Two, FAdd(FMul(j, k), FMul(i, w))),
          FSub(F(1), FMul(Two, FAdd(FMul(i, i), FMul(j, j)))) >> >>

UnitQuat(i, j, k, w) ==
    FAdd(FAdd(FMul(i, i), FMul(j, j)), FAdd(FMul(k, k), FMul(w, w))) = F(1)

\* columns of unit length and mutually orthogonal
Orthonormal(c) ==
    /\ dot(X(c), X(c)) = F(1) /\ dot(Y(c), Y(c)) = F(1) /\ dot(Z(c), Z(c)) = F(1)
    /\ dot(X(c), Y(c)) = F(0) /\ dot(Y(c), Z(c)) = F(0) /\ dot(Z(c), X(c)) = F(0)

\* C4: from_pos_quaternions(pos, i, j, k, w) has the block of the standard
\* conversion and translation pos; a unit quaternion gives an orthonormal
\* block, and (0,0,1,0) gives columns (-1,0,0), (0,-1,0), (0,0,1)
C4_QuaternionBlock ==
    (call.fn = "from_pos_quaternions")
        => /\ \A r \in 1 .. 3, c \in 1 .. 3 :
                  Rows(ret)[r][c] = QuatBlock(call.i, call.j, call.k, call.w)[r][c]
           /\ P(ret) = call.pos
           /\ UnitQuat(call.i, call.j, call.k, call.w) => Orthonormal(ret)
           /\ (<<call.i, call.j, call.k, call.w>> = <<F(0), F(0), F(1), F(0)>>)
                  => /\ X(ret) = V(-1, 0, 0)
                     /\ Y(ret) = V(0, -1, 0)
                     /\ Z(ret) = V(0, 0, 1)

ParallelToUp(d) == d.x = F(0) /\ d.z = F(0)

\* C5: for from != to with from - to not parallel to up, from_pos_facing
\* returns z = the unit look vector, x = normalized(cross(up, z)) of
\* magnitude 1, y = cross(z, x), orthonormal columns, and p = from
C5_FacingBasis ==
    (/\ call.fn = "from_pos_facing"
     /\ call.from # call.to
     /\ ~ParallelToUp(VSub(call.from, call.to)))
        => /\ Z(ret) = normalized(VSub(call.from, call.to))
           /\ X(ret) = normalized(cross(up, Z(ret)))
           /\ magnitude(X(ret)) = F(1)
           /\ Y(ret) = cross(Z(ret), X(ret))
           /\ Orthonormal(ret)
           /\ P(ret) = call.from

\* C6: for from - to parallel to up (straight up or down), and for
\* from == to, from_pos_facing returns one of the two fallback bases, with
\* no NaN, unit-length, mutually orthogonal, right-handed columns
\* (cross(x, y) = z, determinant +1) and p = from
C6_FacingFallback ==
    (/\ call.fn = "from_pos_facing"
     /\ ParallelToUp(VSub(call.from, call.to)))
        => /\ FiniteFrame(ret)
           /\ <<X(ret), Y(ret), Z(ret)>> \in
                  { <<forward, right, down>>, <<backward, right, up>> }
           /\ Orthonormal(ret)
           /\ cross(X(ret), Y(ret)) = Z(ret)
           /\ determinant(ret) = F(1)
           /\ P(ret) = call.from

C6_Witness ==
    /\ call.fn = "from_pos_facing"
    /\ call.from # call.to
    /\ call.from # zero
    /\ ParallelToUp(VSub(call.from, call.to))
    /\ Z(ret) = down
    /\ X(ret) = forward

\* C7: look_at(eye, center) is exactly the identity when eye == center and
\* when eye - center is parallel to up (the right axis cross(up, z) has
\* zero magnitude); no component of the result is NaN
C7_LookAtDegenerate ==
    (/\ call.fn = "look_at"
     /\ ParallelToUp(VSub(call.eye, call.center)))
        => /\ ret = identity
           /\ FiniteFrame(ret)

C7_Witness ==
    /\ call.fn = "look_at"
    /\ call.eye # call.center
    /\ call.eye # zero
    /\ ParallelToUp(VSub(call.eye, call.center))
    /\ magnitude(cross(up, unit(VSub(call.eye, call.center)))) = F(0)
    /\ ret = identity

\* C10 as stated: from_axis_angle(up, pi/2) has x() = (0,0,1) = backward()
\* and translation (0,0,0)
C10_QuarterTurnBackward ==
    (call.fn = "from_axis_angle" /\ call.axis = up /\ call.theta = 1)
        => /\ X(ret) = backward
           /\ P(ret) = zero

\* C10 amended: from_axis_angle(up, pi/2) has x() = (0,0,-1) = forward()
\* and translation (0,0,0)
C10_QuarterTurnForward ==
    (call.fn = "from_axis_angle" /\ call.axis = up /\ call.theta = 1)
        => /\ X(ret) = forward
           /\ X(ret) = V(0, 0, -1)
           /\ P(ret) = zero

C10_Witness ==
    /\ call.fn = "from_axis_angle"
    /\ call.axis = up
    /\ call.theta = 1
    /\ FCos(call.theta) = F(0)
    /\ FSin(call.theta) = F(1)
    /\ X(ret) = vec_axis_angle(up, right, 1)
    /\ X(ret) = forward

(***************************************************************************)
(* SpecVec: the Vec3 operations.  vec is the receiver and vec2 the other   *)
(* operand.  normalized() borrows the receiver; normalize() consumes it    *)
(* and returns it, so the binding then holds the returned vector.          *)
(***************************************************************************)
VecInputs ==
    { V(i, j, k) : i \in {-1, 0, 1}, j \in {-1, 0, 1}, k \in {-1, 0, 1} }
    \cup { V(3, 4, 0), V(0, -3, 4), V(1, 2, 2), V(0, 0, 2), V(-6, 0, 8),
           Vec3(Tiny, F(0), F(0)), Vec3(F(0), FNeg(Tiny), F(0)),
           Vec3(Tiny, Tiny, Tiny), Vec3(Q(1, 2), F(0), F(0)) }

InitVec ==
    /\ vec \in VecInputs
    /\ vec2 \in { zero, up, V(1, 2, 2), V(-1, 0, 1) }
    /\ cf = identity
    /\ rhs = identity
    /\ third = identity
    /\ call = NoCall
    /\ ret = NoCall
    /\ nops = 0

Magnitude ==
    /\ call' = [fn |-> "magnitude", self |-> vec]
    /\ ret' = magnitude(vec)
    /\ UNCHANGED <<cf, rhs, third, vec, vec2, nops>>

Dot ==
    /\ call' = [fn |-> "dot", self |-> vec, other |-> vec2]
    /\ ret' = dot(vec, vec2)
    /\ UNCHANGED <<cf, rhs, third, vec, vec2, nops>>

Cross ==
    /\ call' = [fn |-> "cross", self |-> vec, other |-> vec2]
    /\ ret' = cross(vec, vec2)
    /\ UNCHANGED <<cf, rhs, third, vec, vec2, nops>>

Normalized ==
    /\ call' = [fn |-> "normalized", self |-> vec]
    /\ ret' = normalized(vec)
    /\ UNCHANGED <<cf, rhs, third, vec, vec2, nops>>

Normalize ==
    /\ nops < MaxOps
    /\ call' = [fn |-> "normalize", self |-> vec]
    /\ ret' = normalize(vec)
    /\ vec' = ret'
    /\ nops' = nops + 1
    /\ UNCHANGED <<cf, rhs, third, vec2>>

NextVec ==
    \/ Normalize
    \/ Normalized
    \/ Magnitude
    \/ Dot
    \/ Cross

SpecVec == InitVec /\ [][NextVec]_vars

(***************************************************************************)
(* Claims about Vec3, checked under SpecVec.                               *)
(***************************************************************************)
\* C8: for a vector whose magnitude is exactly 0, normalized() and
\* normalize() both return the zero vector (0,0,0), with no NaN; for every
\* input the two variants return the same vector; normalized() leaves its
\* receiver unchanged
C8_NormalizeZero ==
    /\ (call.fn \in {"normalize", "normalized"})
        => /\ FEq(magnitude(call.self), F(0)) => ret = zero
           /\ FiniteVec(ret)
           /\ normalize(call.self) = normalized(call.self)
    /\ (call.fn = "normalized") => vec = call.self

====
